---- MODULE Spec2Model ----
(***************************************************************************)
(* lambda-extension-hooks: the Hook Registry (lib/hook-registry.js), the   *)
(* Protocol Client (lib/extension-client.js) and the Lifecycle Controller  *)
(* (lib/lambda-hooks.js, class LambdaHooks).                               *)
(*                                                                         *)
(* One step of the model is one turn of the Node.js event loop: a call     *)
(* made by the embedding program, a response of the host, the settling of  *)
(* a handler, or an OS signal, followed by every continuation that runs    *)
(* as a microtask before the next await on I/O or on a handler.            *)
(***************************************************************************)
EXTENDS Integers, Sequences, FiniteSets, Bags, TLC

\* ------------------------------------------------------------------ bounds
MaxEntries == 3    \* entries pushed into the registry by SpecReg
MaxHooks == 2      \* handlers registered before a controller run
MaxStarts == 1     \* calls of start() in Spec (SpecRestart allows one more)
MaxPolls == 2      \* responses the host gives to event/next requests

\* ------------------------------------------------------- the Hook Registry
Phases == {"INIT", "INVOKE", "SHUTDOWN"}

\* Keys that hooks[eventType] finds on Object.prototype rather than on hooks.
InheritedKeys == {"toString"}

EventTypes == Phases \cup {"UNKNOWN"} \cup InheritedKeys

\* A JavaScript priority is absent ({}) or an integer ({p}).
Priorities == {-1, 0, 20}
OptPriorities == {{}} \cup {{p} : p \in Priorities}

Truthy(s) == s # {} /\ s # {0}
Val(s) == CHOOSE x \in s : TRUE

\* a || b || 0
OrZero2(a, b) == IF Truthy(a) THEN Val(a) ELSE IF Truthy(b) THEN Val(b) ELSE 0
\* a || 0
OrZero1(a) == IF Truthy(a) THEN Val(a) ELSE 0

\* The values register is given: a function, an object with a function in
\* its handler property, or something else (a number, null, an object with
\* no handler function).
ItemKinds == {"function", "object", "number"}
Items == {[kind |-> k, priority |-> p] : k \in {"object"}, p \in OptPriorities}
         \cup {[kind |-> k, priority |-> {}] : k \in {"function", "number"}}

IsHandlerObject(item) == item.kind = "object"
IsFunction(item) == item.kind = "function"
IsValidItem(item) == IsHandlerObject(item) \/ IsFunction(item)

\* The entry pushed for an item of an array (lines 37-48); the handler is
\* named by the number of entries pushed before it (each registered
\* function is a distinct one).
ArrayEntry(item, options, id) ==
    [handler |-> id,
     priority |-> IF IsHandlerObject(item)
                  THEN OrZero2(item.priority, options.priority)
                  ELSE OrZero1(options.priority)]

\* The entry pushed for a handler given on its own (lines 59-70).
SingleEntry(item, options, id) ==
    [handler |-> id,
     priority |-> IF IsHandlerObject(item)
                  THEN OrZero2(item.priority, options.priority)
                  ELSE OrZero1(options.priority)]

\* Array.prototype.sort with (a, b) => b.priority - a.priority: a stable
\* sort, so an element moves in front of exactly the elements of strictly
\* smaller priority.
\* The same with a comparison that is not stable: an element also moves in
\* front of the elements of its own priority.
RECURSIVE InsertSortedUnstable(_, _)
InsertSortedUnstable(list, e) ==
    IF list = <<>> THEN <<e>>
    ELSE IF list[Len(list)].priority - e.priority <= 0
         THEN Append(InsertSortedUnstable(SubSeq(list, 1, Len(list) - 1), e),
                     list[Len(list)])
         ELSE Append(list, e)

RECURSIVE InsertSorted(_, _)
InsertSorted(list, e) ==
    IF list = <<>> THEN <<e>>
    ELSE IF list[Len(list)].priority - e.priority < 0
         THEN Append(InsertSorted(SubSeq(list, 1, Len(list) - 1), e), list[Len(list)])
         ELSE Append(list, e)

RECURSIVE SortByPriority(_)
SortByPriority(list) ==
    IF list = <<>> THEN <<>>
    ELSE InsertSorted(SortByPriority(SubSeq(list, 1, Len(list) - 1)), list[Len(list)])

\* handler.forEach(item => ...): pushes entries until an item is rejected.
RECURSIVE PushItems(_, _, _, _)
PushItems(list, items, options, id) ==
    IF items = <<>> THEN [list |-> list, error |-> "none"]
    ELSE IF IsValidItem(Head(items))
         THEN PushItems(Append(list, ArrayEntry(Head(items), options, id)),
                        Tail(items), options, id + 1)
         ELSE [list |-> list, error |-> "INVALID_HANDLER"]

\* The branches for a handler that is not an array.
PushSingle(list, item, options, id) ==
    IF IsValidItem(item)
    THEN [list |-> Append(list, SingleEntry(item, options, id)), error |-> "none"]
    ELSE [list |-> list, error |-> "INVALID_HANDLER"]

\* The guard of line 26: hooks[eventType] is falsy.
UnknownEventType(eventType) == eventType \notin Phases /\ eventType \notin InheritedKeys

\* register(eventType, handler, options) on the registry state h; pushed is
\* the number of entries pushed so far. Gives the new lists and the error
\* thrown ("none" when the call returns).
register(h, pushed, eventType, handler, options) ==
    IF UnknownEventType(eventType)
    THEN [hooks |-> h, error |-> "INVALID_EVENT_TYPE"]
    ELSE IF eventType \in InheritedKeys
    THEN \* hooks[eventType] is a function of Object.prototype: it passes the
         \* guard, and has no push and no sort.
         [hooks |-> h,
          error |-> IF handler.items # <<>> /\ ~IsValidItem(Head(handler.items))
                    THEN "INVALID_HANDLER" ELSE "TypeError"]
    ELSE LET r == IF handler.isArray
                  THEN PushItems(h[eventType], handler.items, options, pushed)
                  ELSE PushSingle(h[eventType], Head(handler.items), options, pushed)
         IN  IF r.error # "none"
             THEN [hooks |-> [h EXCEPT ![eventType] = r.list], error |-> r.error]
             ELSE [hooks |-> [h EXCEPT ![eventType] = SortByPriority(r.list)],
                   error |-> "none"]

\* What register can be given as its handler argument: one item, or an
\* array of items.
Single(item) == [isArray |-> FALSE, items |-> <<item>>]
Array(items) == [isArray |-> TRUE, items |-> items]

\* register's options: none, or a default priority.
Options == {[priority |-> p] : p \in {{}, {20}}}
NoOptions == [priority |-> {}]

RECURSIVE SumLen(_, _)
SumLen(h, ps) ==
    IF ps = {} THEN 0
    ELSE LET p == CHOOSE x \in ps : TRUE IN Len(h[p]) + SumLen(h, ps \ {p})

\* ------------------------------------------------------------ the state
VARIABLES
    hooks,          \* registry: phase -> list of entries (hook-registry.js:6)
    pushed,         \* number of entries pushed so far (names the handlers)
    regError,       \* what the last register call threw ("none": it returned)
    failedRegs,     \* whether a register call on a phase has thrown
    asked,          \* per handler: the priority its register call asked for
    constructed,    \* the last new LambdaHooks(options): its options and the
                    \* error it threw
    extensionType,  \* LambdaHooks.#extensionType
    initLoad,       \* LambdaHooks.#initLoad
    isRunning,      \* LambdaHooks.#isRunning
    extensionId,    \* LambdaHooks.#extensionId (0: null)
    startPc,        \* per start() call: where it is
    startError,     \* per start() call: the error it rejected with
    loopPc,         \* per start() call: where its #startEventLoop is
    loopEvent,      \* per start() call: the event its loop is dispatching
    sigPc,          \* per signal: where its #handleSignal call is
    running,        \* handler invocations that have not settled yet
    dispatched,     \* bag of the executeHooks calls made: [phase, event]
    completed,      \* the executeHooks calls that have returned or thrown
    failure,        \* the handler invocation that threw in the controller's
                    \* last step (empty: none did)
    logged,         \* the messages given to console.error
    requests,       \* per host operation: number of requests sent
    subscriptions,  \* the event lists the register requests carried
    reported,       \* the calls of reportInitError / reportExitError: the
                    \* operation and the error thrown
    responses,      \* number of event/next responses the host has given
    polled,         \* what the polls of the loops have yielded
    listeners,      \* per signal: number of listeners process.once added
    signalled,      \* the signals the process received: [signal, wasRunning]
    exited          \* "no", or "exit0" after process.exit(0)

regVars == <<hooks, pushed, regError, failedRegs, asked>>
ctlVars == <<constructed, extensionType, initLoad, isRunning, extensionId, startPc, startError,
             loopPc, loopEvent, sigPc, running, dispatched, completed, failure, logged,
             requests, subscriptions, reported, responses, polled,
             listeners, signalled, exited>>
vars == <<regVars, ctlVars>>

Signals == {"SIGINT", "SIGTERM"}
Operations == {"register", "event/next", "init/error", "exit/error"}
\* The calls of start(): call MaxStarts + 1 is made under SpecRestart only.
StartCalls == 1..(MaxStarts + 1)

NoError == [code |-> "none", cause |-> "none", isFatal |-> FALSE]
NoEvent == [eventType |-> "none", id |-> 0, signal |-> "none"]

\* A LambdaHookError whose isFatal parameter defaults to true.
LambdaHookErrorFatal(code, cause) == [code |-> code, cause |-> cause, isFatal |-> TRUE]

\* new LambdaHookError(code, message, cause): isFatal takes its default.
LambdaHookError(code, cause) == [code |-> code, cause |-> cause, isFatal |-> FALSE]

\* The response of register number k, handed to the INIT hooks as their event.
RegistrationResponse(k) == [eventType |-> "REGISTERED", id |-> k, signal |-> "none"]
\* The envelope of the n-th event/next response.
Envelope(type, n) == [eventType |-> type, id |-> n, signal |-> "none"]
\* { eventType: 'SHUTDOWN', signal }
SignalEvent(sig) == [eventType |-> "SHUTDOWN", id |-> 0, signal |-> sig]

\* The controller's state as one record, so that the code's sequential
\* steps compose as functions.
State ==
    [isRunning |-> isRunning, extensionId |-> extensionId, startPc |-> startPc,
     startError |-> startError, loopPc |-> loopPc, loopEvent |-> loopEvent,
     sigPc |-> sigPc, running |-> running, dispatched |-> dispatched,
     completed |-> completed, failure |-> {}, logged |-> logged,
     requests |-> requests, subscriptions |-> subscriptions, reported |-> reported,
     listeners |-> listeners, exited |-> exited]

Becomes(s) ==
    /\ isRunning' = s.isRunning
    /\ extensionId' = s.extensionId
    /\ startPc' = s.startPc
    /\ startError' = s.startError
    /\ loopPc' = s.loopPc
    /\ loopEvent' = s.loopEvent
    /\ sigPc' = s.sigPc
    /\ running' = s.running
    /\ dispatched' = s.dispatched
    /\ completed' = s.completed
    /\ failure' = s.failure
    /\ logged' = s.logged
    /\ requests' = s.requests
    /\ subscriptions' = s.subscriptions
    /\ reported' = s.reported
    /\ listeners' = s.listeners
    /\ exited' = s.exited

Sent(s, op) == [s EXCEPT !.requests[op] = @ + 1]

\* An executeHooks call returns ("resolved") or throws ("rejected").
Completes(s, phase, event, outcome) ==
    [s EXCEPT !.completed = @ \cup {[phase |-> phase, event |-> event,
                                     outcome |-> outcome]}]

\* console.error(message, error)
Log(s, message) == [s EXCEPT !.logged = @ \cup {message}]

\* ------------------------------------------------- the Protocol Client
\* The names a closure of createExtensionClient can resolve: its
\* destructured options, apiBaseUrl, makeRequest and its own parameters.
ClientScope == {"extensionName", "extensionType", "includeAccountId", "apiBaseUrl",
                "makeRequest"}

\* What makeRequest rejects with, and what register adds to that.
RequestErrors == {LambdaHookError("API_ERROR", "status"),
                  LambdaHookError("NETWORK_ERROR", "transport")}
RegisterErrors == RequestErrors \cup {LambdaHookError("INVALID_RESPONSE", "none")}
\* nextEvent is only called with the identifier register returned, which
\* is not empty, so its INVALID_STATE guard does not fire.
NextEventErrors == RequestErrors

\* A register request that names both events whatever the type.
SubscribedAll(type) == {"INVOKE", "SHUTDOWN"}

\* The events start() names in its register request (lines 93-95).
Subscribed(type) == IF type = "internal" THEN {"INVOKE"} ELSE {"INVOKE", "SHUTDOWN"}

\* reportInitError(error) / reportExitError(error): `if (!extensionId)` reads
\* a name that no scope of the client declares, which throws before the
\* guard or the request. Gives the state and the error thrown.
report(s, op) ==
    LET error == IF "extensionId" \notin ClientScope THEN "ReferenceError" ELSE "none"
        called == [s EXCEPT !.reported = @ \cup {[op |-> op, error |-> error]}]
    IN  IF error # "none" THEN [s |-> called, error |-> error]
        ELSE [s |-> Sent(called, op), error |-> "none"]

reportInitError(s) == report(s, "init/error")
reportExitError(s) == report(s, "exit/error")

\* The same with an empty catch block.
TryReportSilent(r, message) == r.s

\* try { await report } catch (reportError) { console.error(...) }
TryReport(r, message) == IF r.error = "none" THEN r.s ELSE Log(r.s, message)

\* --------------------------------------------- executeHooks (registry)
\* hooks[eventType].map(...): the handlers in the order of the list.
LaunchOrder(phase) == [i \in 1..Len(hooks[phase]) |-> hooks[phase][i].handler]

\* A loop that awaits each handler before it calls the next: only the first
\* handler is started by the call itself.
InvocationsOneAtATime(phase, event) ==
    {[phase |-> phase, event |-> event, idx |-> i] : i \in DOMAIN LaunchOrder(phase) \cap {1}}

Invocations(phase, event) ==
    {[phase |-> phase, event |-> event, idx |-> i] : i \in DOMAIN LaunchOrder(phase)}

\* An executeHooks that throws when the phase has no handler.
executeHooksThrowsOnEmpty(s, phase, event) ==
    LET called == [s EXCEPT !.dispatched =
                       @ (+) SetToBag({[phase |-> phase, event |-> event]})]
    IN  IF Len(hooks[phase]) = 0 THEN Completes(called, phase, event, "rejected")
        ELSE [called EXCEPT !.running = @ \cup Invocations(phase, event)]

\* executeHooks up to its await: returns at once for an empty phase, else
\* calls every handler of the list (hooks[eventType].map).
executeHooks(s, phase, event) ==
    LET called == [s EXCEPT !.dispatched =
                       @ (+) SetToBag({[phase |-> phase, event |-> event]})]
    IN  IF Len(hooks[phase]) = 0 THEN Completes(called, phase, event, "resolved")
        ELSE [called EXCEPT !.running = @ \cup Invocations(phase, event)]

\* Whether the executeHooks call has already returned (line 90).
Returned(phase) == Len(hooks[phase]) = 0

\* Promise.race in place of Promise.all: settles with the first handler.
PromiseRace(inv, ok, left) == IF ok THEN "resolved" ELSE "rejected"

\* Promise.all(hookPromises) after invocation inv settles, the invocations
\* in left still pending: rejects on a rejection, resolves when none is left.
PromiseAll(inv, ok, left) ==
    IF ~ok THEN "rejected"
    ELSE IF \E o \in left : o.phase = inv.phase /\ o.event = inv.event THEN "pending"
    ELSE "resolved"

\* ------------------------------------------- the Lifecycle Controller
\* while (this.#isRunning) { ... await nextEvent(...) }: the loop test and
\* the poll it issues.
LoopHead(s, k) ==
    IF s.isRunning
    THEN [Sent(s, "event/next") EXCEPT !.loopPc[k] = "poll", !.loopEvent[k] = NoEvent]
    ELSE [s EXCEPT !.loopPc[k] = "done", !.loopEvent[k] = NoEvent]

\* break (and the return that follows the loop).
LoopBreak(s, k) == [s EXCEPT !.loopPc[k] = "done", !.loopEvent[k] = NoEvent]

\* #handleInvoke that treats a failure of the hooks as the end of the run.
handleInvokeEndFatal(s, k, outcome) ==
    IF outcome = "rejected"
    THEN LoopBreak([Log(s, "Error executing invoke hooks") EXCEPT !.isRunning = FALSE], k)
    ELSE LoopHead(s, k)

\* #handleInvoke after the await: a failure is caught and logged, and the
\* loop goes on.
handleInvokeEnd(s, k, outcome) ==
    LoopHead(IF outcome = "rejected" THEN Log(s, "Error executing invoke hooks") ELSE s, k)

\* #handleShutdown with the reset of #isRunning inside the try block, after
\* the await, where a failure skips it.
handleShutdownEndNoFinally(s, outcome) ==
    IF outcome = "rejected" THEN Log(s, "Error executing shutdown hooks")
    ELSE [s EXCEPT !.isRunning = FALSE]

\* #handleShutdown after the await: a failure is caught and logged, and the
\* finally block runs.
handleShutdownEnd(s, outcome) ==
    [(IF outcome = "rejected" THEN Log(s, "Error executing shutdown hooks") ELSE s)
        EXCEPT !.isRunning = FALSE]

\* #handleInvoke(event) called by the loop of start call k.
handleInvoke(s, k, event) ==
    LET s1 == executeHooks(s, "INVOKE", event)
    IN  IF Returned("INVOKE") THEN handleInvokeEnd(s1, k, "resolved")
        ELSE [s1 EXCEPT !.loopPc[k] = "invoke", !.loopEvent[k] = event]

\* A loop that handles a SHUTDOWN event as it handles an INVOKE event.
handleShutdownAsInvoke(s, k, event) == handleInvoke(s, k, event)

\* #handleShutdown(event) called by the loop of start call k, and the break.
handleShutdown(s, k, event) ==
    LET s1 == executeHooks(s, "SHUTDOWN", event)
    IN  IF Returned("SHUTDOWN") THEN LoopBreak(handleShutdownEnd(s1, "resolved"), k)
        ELSE [s1 EXCEPT !.loopPc[k] = "shutdown", !.loopEvent[k] = event]

\* A catch block that takes every error for a fatal one.
LoopCatchAlwaysFatal(s, k, error) ==
    LoopBreak([Log(s, "Error in event loop") EXCEPT !.isRunning = FALSE], k)

\* The catch block of #startEventLoop.
LoopCatch(s, k, error) ==
    LET s1 == Log(s, "Error in event loop")
    IN  IF error.isFatal
        THEN LoopBreak([TryReport(reportExitError(s1), "Failed to report exit error")
                           EXCEPT !.isRunning = FALSE], k)
        ELSE LoopHead(s1, k)

\* start(), lines 106-112: listeners, #isRunning, the loop up to its first
\* await; then the promise of start() resolves.
EnterRunning(s, k) ==
    LoopHead([s EXCEPT !.listeners = [sig \in Signals |-> @[sig] + 1],
                       !.isRunning = TRUE,
                       !.startPc[k] = "resolved"], k)

\* A catch block that reports and does not rethrow: start() resolves.
StartCatchSwallows(s, k, error) ==
    [Log(s, "Failed to report initialization error") EXCEPT !.startPc[k] = "resolved"]

\* start(), the catch block: wrap, try to report, rethrow.
StartCatch(s, k, error) ==
    LET wrappedError == LambdaHookError("EXTENSION_REGISTRATION_FAILED", error.code)
    IN  [TryReport(reportInitError(s), "Failed to report initialization error")
            EXCEPT !.startPc[k] = "rejected", !.startError[k] = wrappedError]

\* A start() that calls executeHooks('INIT', ...) without awaiting it.
ExecuteInitDetached(s, k) ==
    EnterRunning(executeHooks(s, "INIT", RegistrationResponse(k)), k)

\* start(), line 104: the INIT hooks with the registration response.
ExecuteInit(s, k) ==
    LET s1 == executeHooks(s, "INIT", RegistrationResponse(k))
    IN  IF Returned("INIT") THEN EnterRunning(s1, k)
        ELSE [s1 EXCEPT !.startPc[k] = "init"]

\* A start() that goes from register to the INIT hooks whatever initLoad is.
RegisteredNoPrefetch(s, k) == ExecuteInit([s EXCEPT !.extensionId = k], k)

\* start(), lines 97-104, once register has returned.
Registered(s, k) ==
    LET s1 == [s EXCEPT !.extensionId = k]
    IN  IF initLoad = "after"
        THEN [Sent(s1, "event/next") EXCEPT !.startPc[k] = "prefetch"]
        ELSE ExecuteInit(s1, k)

\* start(), lines 87-95.
start(s, k) ==
    IF s.isRunning
    THEN [s EXCEPT !.startPc[k] = "rejected",
                   !.startError[k] = LambdaHookError("ALREADY_RUNNING", "none")]
    ELSE [Sent(s, "register") EXCEPT !.startPc[k] = "register",
                                      !.subscriptions = @ \cup {Subscribed(extensionType)}]

\* process.once(signal, this.#handleSignal) hands over the bare method:
\* the emitter calls it with itself as `this`.
ListenerThis == "process"
\* this.#handleShutdown exists on instances of LambdaHooks only; on any
\* other receiver the access throws a TypeError.
HasPrivateMethods(receiver) == receiver = "controller"

\* #handleSignal without its finally block.
handleSignalEndNoExit(s) == s

\* #handleSignal: the finally block.
handleSignalEnd(s) == [s EXCEPT !.exited = "exit0"]

\* #handleSignal(signal), called as a listener.
handleSignal(s, sig) ==
    IF ~HasPrivateMethods(ListenerThis) THEN handleSignalEnd(s)
    ELSE LET s1 == executeHooks(s, "SHUTDOWN", SignalEvent(sig))
         IN  IF Returned("SHUTDOWN") THEN handleSignalEnd(handleShutdownEnd(s1, "resolved"))
             ELSE [s1 EXCEPT !.sigPc[sig] = "shutdown"]

\* What runs when the executeHooks call that awaited inv settles.
Awaiters(s, inv) ==
    {[flow |-> "start", k |-> k, sig |-> "none"] : k \in
        {k \in StartCalls : /\ s.startPc[k] = "init"
                            /\ inv.phase = "INIT"
                            /\ inv.event = RegistrationResponse(k)}}
    \cup
    {[flow |-> "loop", k |-> k, sig |-> "none"] : k \in
        {k \in StartCalls : /\ \/ s.loopPc[k] = "invoke" /\ inv.phase = "INVOKE"
                               \/ s.loopPc[k] = "shutdown" /\ inv.phase = "SHUTDOWN"
                            /\ inv.event = s.loopEvent[k]}}
    \cup
    {[flow |-> "signal", k |-> 0, sig |-> sig] : sig \in
        {sig \in Signals : /\ s.sigPc[sig] = "shutdown"
                           /\ inv.phase = "SHUTDOWN"
                           /\ inv.event = SignalEvent(sig)}}

Resume(s, a, inv, outcome) ==
    IF a.flow = "start"
    THEN IF outcome = "resolved" THEN EnterRunning(s, a.k)
         ELSE StartCatch(s, a.k, LambdaHookError("HOOK_EXECUTION_ERROR", "handler"))
    ELSE IF a.flow = "loop"
    THEN IF inv.phase = "INVOKE" THEN handleInvokeEnd(s, a.k, outcome)
         ELSE LoopBreak(handleShutdownEnd(s, outcome), a.k)
    ELSE handleSignalEnd(handleShutdownEnd([s EXCEPT !.sigPc[a.sig] = "done"], outcome))

\* What is kept of a handler invocation that threw: whether its error is
\* the one its executeHooks call threw, and whether that call had already
\* thrown when it did.
Failure(inv, surfaced, late) == [inv |-> inv, surfaced |-> surfaced, late |-> late]

\* Whether the executeHooks call that started inv has returned or thrown.
CallCompleted(s, inv) ==
    \E c \in s.completed : c.phase = inv.phase /\ c.event = inv.event

\* An executeHooks that gives up the handlers still running once one of
\* them has failed.
SettleCancels(s, inv, ok) ==
    LET left == IF ok THEN s.running \ {inv}
                ELSE {o \in s.running : o.phase # inv.phase \/ o.event # inv.event}
        s0 == [s EXCEPT !.running = left,
                        !.failure = IF ok THEN {}
                                    ELSE {Failure(inv, ~CallCompleted(s, inv),
                                                  CallCompleted(s, inv))}]
        s1 == IF ok THEN s0 ELSE Log(s0, "Error executing hook")
        outcome == PromiseAll(inv, ok, s1.running)
        as == Awaiters(s, inv)
    IN  IF outcome = "pending" \/ as = {} THEN s1
        ELSE Resume(Completes(s1, inv.phase, inv.event, outcome),
                    CHOOSE a \in as : TRUE, inv, outcome)

\* One handler invocation settles.
Settle(s, inv, ok) ==
    LET s0 == [s EXCEPT !.running = @ \ {inv},
                        !.failure = IF ok THEN {}
                                    ELSE {Failure(inv, ~CallCompleted(s, inv),
                                                  CallCompleted(s, inv))}]
        \* the catch of the hookPromises wrapper (line 98)
        s1 == IF ok THEN s0 ELSE Log(s0, "Error executing hook")
        outcome == PromiseAll(inv, ok, s1.running)
        as == Awaiters(s, inv)
    IN  IF outcome = "pending" \/ as = {} THEN s1
        ELSE Resume(Completes(s1, inv.phase, inv.event, outcome),
                    CHOOSE a \in as : TRUE, inv, outcome)

\* ------------------------------------------------------------- actions
Alive == exited = "no"

\* The embedding program calls start() for the k-th time.
Start(k) ==
    /\ Alive
    /\ startPc[k] = "idle"
    /\ \A j \in StartCalls : j < k => startPc[j] # "idle"
    /\ Becomes(start(State, k))
    /\ UNCHANGED <<regVars, constructed, extensionType, initLoad, responses, polled, signalled>>

\* The host answers the register request of start call k.
RegisterResponds(k, error) ==
    /\ Alive
    /\ startPc[k] = "register"
    /\ Becomes(IF error = NoError THEN Registered(State, k)
               ELSE StartCatch(State, k, error))
    /\ UNCHANGED <<regVars, constructed, extensionType, initLoad, responses, polled, signalled>>

\* The host answers the event/next request that start call k made before
\* its INIT hooks; the event is dropped.
PrefetchResponds(k, error) ==
    /\ Alive
    /\ startPc[k] = "prefetch"
    /\ responses < MaxPolls
    /\ responses' = responses + 1
    /\ Becomes(IF error = NoError THEN ExecuteInit(State, k)
               ELSE StartCatch(State, k, error))
    /\ UNCHANGED <<regVars, constructed, extensionType, initLoad, polled, signalled>>

\* The host answers the poll of the loop of start call k with an event, of
\* a type the register request named.
PollReturns(k, type) ==
    /\ Alive
    /\ loopPc[k] = "poll"
    /\ responses < MaxPolls
    /\ responses' = responses + 1
    /\ polled' = polled \cup {[call |-> k, event |-> Envelope(type, responses + 1),
                                error |-> NoError]}
    /\ LET event == Envelope(type, responses + 1)
       IN  Becomes(IF event.eventType = "SHUTDOWN" THEN handleShutdown(State, k, event)
                   ELSE IF event.eventType = "INVOKE" THEN handleInvoke(State, k, event)
                   ELSE LoopHead(State, k))
    /\ UNCHANGED <<regVars, constructed, extensionType, initLoad, signalled>>

\* The poll of the loop of start call k fails.
PollFails(k, error) ==
    /\ Alive
    /\ loopPc[k] = "poll"
    /\ responses < MaxPolls
    /\ responses' = responses + 1
    /\ polled' = polled \cup {[call |-> k, event |-> Envelope("none", responses + 1),
                                error |-> error]}
    /\ Becomes(LoopCatch(State, k, error))
    /\ UNCHANGED <<regVars, constructed, extensionType, initLoad, signalled>>

\* A handler invocation resolves (ok) or throws.
HandlerSettles(inv, ok) ==
    /\ Alive
    /\ inv \in running
    /\ Becomes(Settle(State, inv, ok))
    /\ UNCHANGED <<regVars, constructed, extensionType, initLoad, responses, polled, signalled>>

\* The listeners of a signal, each added by process.once, called in turn;
\* nothing runs once the process has exited.
RECURSIVE CallListeners(_, _, _)
CallListeners(s, sig, n) ==
    IF n = 0 \/ s.exited # "no" THEN s
    ELSE CallListeners(handleSignal(s, sig), sig, n - 1)

\* The process receives SIGINT or SIGTERM after start() has added its
\* listeners: each is removed and called.
Signal(sig) ==
    /\ Alive
    /\ listeners[sig] > 0
    /\ signalled' = signalled \cup {[signal |-> sig, wasRunning |-> isRunning]}
    /\ Becomes(CallListeners([State EXCEPT !.listeners[sig] = 0], sig, listeners[sig]))
    /\ UNCHANGED <<regVars, constructed, extensionType, initLoad, responses, polled>>

\* The priority a caller asks for, as the README reads a call: the item's own if it has
\* one, else the default of the options if there is one, else 0.
DocumentedPriority(a) ==
    IF a.own # {} THEN Val(a.own)
    ELSE IF a.default # {} THEN Val(a.default)
    ELSE 0

\* registry.register(eventType, handler, options), called directly or
\* through onInit / onInvoke / onShutdown.
Register(eventType, handler, options) ==
    /\ LET r == register(hooks, pushed, eventType, handler, options)
           n == SumLen(r.hooks, Phases) - SumLen(hooks, Phases)
       IN  /\ hooks' = r.hooks
           /\ pushed' = pushed + n
           /\ asked' = asked \o [i \in 1..n |->
                                    DocumentedPriority([own |-> handler.items[i].priority,
                                                        default |-> options.priority])]
           /\ regError' = r.error
           /\ failedRegs' = (failedRegs \/ (r.error # "none" /\ eventType \in Phases))
    /\ UNCHANGED ctlVars

\* ------------------------------------------------------ specifications
\* The options new LambdaHooks is given: each one absent ({}) or a value.
ConstructorOptions ==
    [extensionName : {{}, {""}, {"my-extension"}},
     extensionType : {{}, {"internal"}, {"external"}, {"other"}},
     initLoad : {{}, {"before"}, {"after"}, {"other"}},
     includeAccountId : {{}, {TRUE}, {FALSE}}]

\* The checks of the constructor (lines 27-37): the error it throws.
constructor(options) ==
    IF options.extensionName \in {{}, {""}}
    THEN LambdaHookError("INIT_ERROR", "none")
    ELSE IF options.extensionType \notin {{"internal"}, {"external"}}
    THEN LambdaHookError("INIT_ERROR", "none")
    ELSE IF options.initLoad \notin {{"before"}, {"after"}}
    THEN LambdaHookError("INIT_ERROR", "none")
    ELSE NoError

\* The state new LambdaHooks(options) leaves behind.
Constructed ==
    /\ extensionType \in {"internal", "external"}
    /\ initLoad \in {"before", "after"}
    /\ constructed = [options |-> [extensionName |-> {"my-extension"},
                                   extensionType |-> {extensionType},
                                   initLoad |-> {initLoad},
                                   includeAccountId |-> {}],
                      error |-> NoError]
    /\ isRunning = FALSE
    /\ extensionId = 0
    /\ startPc = [k \in StartCalls |-> "idle"]
    /\ startError = [k \in StartCalls |-> NoError]
    /\ loopPc = [k \in StartCalls |-> "none"]
    /\ loopEvent = [k \in StartCalls |-> NoEvent]
    /\ sigPc = [sig \in Signals |-> "none"]
    /\ running = {}
    /\ dispatched = EmptyBag
    /\ completed = {}
    /\ failure = {}
    /\ logged = {}
    /\ requests = [op \in Operations |-> 0]
    /\ subscriptions = {}
    /\ reported = {}
    /\ responses = 0
    /\ polled = {}
    /\ listeners = [sig \in Signals |-> 0]
    /\ signalled = {}
    /\ exited = "no"

EmptyRegistry == [p \in Phases |-> <<>>]

\* The registry after onInit, onInvoke and onShutdown were each given an
\* array of n[phase] functions.
FunctionArray(n) ==
    Array([i \in 1..n |-> [kind |-> "function", priority |-> {}]])

RegistryWith(n) ==
    LET h1 == register(EmptyRegistry, 0, "INIT", FunctionArray(n["INIT"]), NoOptions).hooks
        h2 == register(h1, n["INIT"], "INVOKE", FunctionArray(n["INVOKE"]), NoOptions).hooks
    IN  register(h2, n["INIT"] + n["INVOKE"], "SHUTDOWN", FunctionArray(n["SHUTDOWN"]),
                 NoOptions).hooks

\* A controller run: the hooks were registered before start(), as the
\* README does.
Init ==
    /\ \E n \in [Phases -> 0..MaxHooks] :
           /\ n["INIT"] + n["INVOKE"] + n["SHUTDOWN"] <= MaxHooks
           /\ hooks = RegistryWith(n)
    /\ pushed = SumLen(hooks, Phases)
    /\ regError = "none"
    /\ failedRegs = FALSE
    /\ asked = [i \in 1..pushed |-> 0]
    /\ Constructed

Next ==
    \/ \E k \in 1..MaxStarts : Start(k)
    \/ \E k \in StartCalls, e \in RegisterErrors \cup {NoError} : RegisterResponds(k, e)
    \/ \E k \in StartCalls, e \in NextEventErrors \cup {NoError} : PrefetchResponds(k, e)
    \/ \E k \in StartCalls, t \in Subscribed(extensionType) : PollReturns(k, t)
    \/ \E k \in StartCalls, e \in NextEventErrors : PollFails(k, e)
    \/ \E inv \in running, ok \in BOOLEAN : HandlerSettles(inv, ok)
    \/ \E sig \in Signals : Signal(sig)

Spec == Init /\ [][Next]_vars

\* Every handler promise that was started settles: while an invocation is
\* pending and the process is alive, one of them resolves or throws.
HandlersSettle == WF_vars(\E inv \in running, ok \in BOOLEAN : HandlerSettles(inv, ok))

\* A controller run in which the handlers settle.
SpecLive == Init /\ [][Next]_vars /\ HandlersSettle

\* The same, where the embedding program may call start() once more, at
\* any time.
NextRestart ==
    \/ \E k \in StartCalls : Start(k)
    \/ \E k \in StartCalls, e \in RegisterErrors \cup {NoError} : RegisterResponds(k, e)
    \/ \E k \in StartCalls, e \in NextEventErrors \cup {NoError} : PrefetchResponds(k, e)
    \/ \E k \in StartCalls, t \in Subscribed(extensionType) : PollReturns(k, t)
    \/ \E k \in StartCalls, e \in NextEventErrors : PollFails(k, e)
    \/ \E inv \in running, ok \in BOOLEAN : HandlerSettles(inv, ok)
    \/ \E sig \in Signals : Signal(sig)

SpecRestart == Init /\ [][NextRestart]_vars

\* onInit / onInvoke / onShutdown(handler, options) called with one function
\* after start() has been called.
OnPhase(phase, options) ==
    /\ Alive
    /\ \E k \in StartCalls : startPc[k] # "idle"
    /\ pushed < MaxHooks + 1
    /\ Register(phase, Single([kind |-> "function", priority |-> {}]), options)

\* A controller run in which the embedding program goes on calling
\* onInit / onInvoke / onShutdown after start().
NextLate ==
    \/ \E k \in 1..MaxStarts : Start(k)
    \/ \E k \in StartCalls, e \in RegisterErrors \cup {NoError} : RegisterResponds(k, e)
    \/ \E k \in StartCalls, e \in NextEventErrors \cup {NoError} : PrefetchResponds(k, e)
    \/ \E k \in StartCalls, t \in Subscribed(extensionType) : PollReturns(k, t)
    \/ \E k \in StartCalls, e \in NextEventErrors : PollFails(k, e)
    \/ \E inv \in running, ok \in BOOLEAN : HandlerSettles(inv, ok)
    \/ \E sig \in Signals : Signal(sig)
    \/ \E p \in Phases, o \in Options : OnPhase(p, o)

SpecLate == Init /\ [][NextLate]_vars

\* The embedding program calls new LambdaHooks(options): a controller that
\* has not been started and a registry with no entry, unless the
\* constructor throws.
New(options) ==
    /\ constructed' = [options |-> options, error |-> constructor(options)]
    /\ IF constructor(options) = NoError
       THEN /\ extensionType' = Val(options.extensionType)
            /\ initLoad' = Val(options.initLoad)
       ELSE UNCHANGED <<extensionType, initLoad>>
    /\ hooks' = EmptyRegistry
    /\ pushed' = 0
    /\ regError' = "none"
    /\ failedRegs' = FALSE
    /\ asked' = <<>>
    /\ UNCHANGED <<isRunning, extensionId, startPc, startError, loopPc, loopEvent,
                   sigPc, running, dispatched, completed, failure, logged, requests,
                   subscriptions, reported, responses, polled, listeners, signalled,
                   exited>>

\* The registry on its own: any sequence of register calls.
InitReg ==
    /\ hooks = EmptyRegistry
    /\ pushed = 0
    /\ regError = "none"
    /\ failedRegs = FALSE
    /\ asked = <<>>
    /\ Constructed
    /\ extensionType = "internal"
    /\ initLoad = "before"

NextReg ==
    \/ \E t \in EventTypes, o \in Options, item \in Items :
           /\ pushed < MaxEntries
           /\ Register(t, Single(item), o)
    \/ \E t \in EventTypes, o \in Options, n \in 0..(MaxEntries - pushed) :
           \E items \in [1..n -> Items] : Register(t, Array(items), o)

SpecReg == InitReg /\ [][NextReg]_vars

\* Construction on its own: controllers built from any options.
NextNew == \E options \in ConstructorOptions : New(options)

SpecNew == InitReg /\ [][NextNew]_vars

\* ---------------------------------------------------------------- claims
NonIncreasing(list) ==
    \A i \in 1..(Len(list) - 1) : list[i].priority >= list[i + 1].priority

\* Handlers are named by their order of registration.
InRegistrationOrder(list) ==
    \A i, j \in 1..Len(list) :
        (i < j /\ list[i].priority = list[j].priority) => list[i].handler < list[j].handler

\* C1: after any sequence of accepted register calls, every phase's list
\* (the launch order of executeHooks) is non-increasing in priority, and
\* entries of equal priority are in their order of registration.
C1_LaunchOrderSorted ==
    ~failedRegs =>
        \A p \in Phases :
            /\ NonIncreasing(hooks[p])
            /\ InRegistrationOrder(hooks[p])

\* The spec's example: [A(p=0), B(p=20), C(p=0)] in one call launches B, A, C.
C1_Witness ==
    /\ ~failedRegs
    /\ hooks["INVOKE"] = <<[handler |-> 1, priority |-> 20],
                           [handler |-> 0, priority |-> 0],
                           [handler |-> 2, priority |-> 0]>>
    /\ LaunchOrder("INVOKE") = <<1, 0, 2>>

DispatchOf(phase, event) == [phase |-> phase, event |-> event]
RunningOf(phase, event) == {inv \in running : inv.phase = phase /\ inv.event = event}
IsCompleted(phase, event) == \E c \in completed : c.phase = phase /\ c.event = event
Polls == requests["event/next"]

\* No start() call other than call k has been made.
OnlyCall(k) == \A j \in StartCalls : j # k => startPc[j] = "idle"
\* No event/next request is waiting for its response.
NoPollOutstanding ==
    \A j \in StartCalls : startPc[j] # "prefetch" /\ loopPc[j] # "poll"

\* C2: a start() call made after an earlier one fails with ALREADY_RUNNING
\* and sends no register request, wherever the earlier call stands.
C2_RepeatedStartRejected ==
    /\ \A k \in StartCalls :
          (k > 1 /\ startPc[k] # "idle") =>
              (startPc[k] = "rejected" /\ startError[k].code = "ALREADY_RUNNING")
    /\ requests["register"] <= 1

\* C3: a poll that yields a SHUTDOWN envelope has the SHUTDOWN hooks
\* dispatched exactly once with that envelope; the loop waits for the
\* dispatch and, when it completes (handlers succeeding or throwing),
\* #isRunning is false and the loop has ended: it polls no more, and with
\* no other start() call made the controller is not running and has no
\* poll outstanding.
ShutdownPolls == {r \in polled : r.event.eventType = "SHUTDOWN"}

C3_ShutdownState ==
    \A r \in ShutdownPolls :
        /\ CopiesIn(DispatchOf("SHUTDOWN", r.event), dispatched) = 1
        /\ IF IsCompleted("SHUTDOWN", r.event)
           THEN /\ loopPc[r.call] = "done"
                /\ OnlyCall(r.call) => (~isRunning /\ NoPollOutstanding)
           ELSE /\ loopPc[r.call] = "shutdown"
                /\ loopEvent[r.call] = r.event

C3_ShutdownStep ==
    \A c \in completed' \ completed :
        (c.phase = "SHUTDOWN" /\ c.event.signal = "none") =>
            (~isRunning' /\ Polls' = Polls)

C3_PolledShutdownTerminates == []C3_ShutdownState /\ [][C3_ShutdownStep]_vars

\* A SHUTDOWN handler threw, and the loop has ended.
C3_Witness ==
    \E r \in ShutdownPolls :
        /\ [phase |-> "SHUTDOWN", event |-> r.event, outcome |-> "rejected"] \in completed
        /\ loopPc[r.call] = "done"
        /\ ~isRunning

\* C4: a signal received while RUNNING has the SHUTDOWN hooks dispatched
\* exactly once, with the synthetic event that carries the signal.
C4_SignalDispatchesOnce ==
    \A r \in signalled :
        r.wasRunning =>
            CopiesIn(DispatchOf("SHUTDOWN", SignalEvent(r.signal)), dispatched) = 1

\* C5: once a signal was received by a RUNNING controller, the process has
\* exited with code 0 unless the handler still awaits its shutdown step.
C5_SignalExitsZero ==
    \A r \in signalled :
        r.wasRunning => (sigPc[r.signal] = "shutdown" \/ exited = "exit0")

C5_Witness == exited = "exit0" /\ \E r \in signalled : r.wasRunning

\* C6: when the dispatch of a polled INVOKE event ends, failed or not,
\* #isRunning, the process and the outcome of start() are as before, and
\* the loop issues its next poll (it ends only if #isRunning was already
\* false); a failure is logged.
C6_InvokeStep ==
    \A k \in StartCalls :
        (loopPc[k] = "invoke" /\ loopPc'[k] # "invoke") =>
            /\ isRunning' = isRunning
            /\ exited' = exited
            /\ startPc' = startPc
            /\ startError' = startError
            /\ IF isRunning THEN loopPc'[k] = "poll" /\ Polls' = Polls + 1
               ELSE loopPc'[k] = "done"
            /\ [phase |-> "INVOKE", event |-> loopEvent[k], outcome |-> "rejected"]
                   \in completed' => "Error executing invoke hooks" \in logged'

C6_InvokeFailureNotFatal == [][C6_InvokeStep]_vars

\* An INVOKE dispatch failed and the loop is polling again.
C6_Witness ==
    \E k \in StartCalls, c \in completed :
        /\ c.phase = "INVOKE" /\ c.outcome = "rejected"
        /\ "Error executing invoke hooks" \in logged
        /\ isRunning
        /\ loopPc[k] = "poll"
        /\ Polls = 2

\* C7: a start() call whose register, pre-fetch or INIT dispatch fails
\* rejects with EXTENSION_REGISTRATION_FAILED whose cause is the original
\* error; the call does not set #isRunning, adds no listener and starts no
\* loop, and with no other start() call made nothing is polled or
\* dispatched to INVOKE or SHUTDOWN hooks afterwards.
RegistrationFailed(k) ==
    startPc[k] = "rejected" /\ startError[k].code = "EXTENSION_REGISTRATION_FAILED"

OriginalErrors ==
    {e.code : e \in RegisterErrors \cup NextEventErrors} \cup {"HOOK_EXECUTION_ERROR"}

C7_FailedState ==
    \A k \in StartCalls :
        /\ IsCompleted("INIT", RegistrationResponse(k)) /\ startPc[k] = "rejected"
               => startError[k].cause = "HOOK_EXECUTION_ERROR"
        /\ [phase |-> "INIT", event |-> RegistrationResponse(k), outcome |-> "rejected"]
               \in completed => RegistrationFailed(k)
        /\ RegistrationFailed(k) =>
              /\ startError[k].cause \in OriginalErrors
              /\ loopPc[k] = "none"
              /\ OnlyCall(k) =>
                    /\ ~isRunning
                    /\ NoPollOutstanding
                    /\ \A d \in BagToSet(dispatched) : d.phase = "INIT"

C7_FailedStep ==
    \A k \in StartCalls :
        (startPc[k] \in {"register", "prefetch", "init"} /\ startPc'[k] = "rejected") =>
            /\ startError'[k].code = "EXTENSION_REGISTRATION_FAILED"
            /\ isRunning' = isRunning
            /\ listeners' = listeners
            /\ Polls' = Polls

C7_StartFailureRejects == []C7_FailedState /\ [][C7_FailedStep]_vars

\* An INIT handler threw and start() has rejected.
C7_Witness ==
    \E k \in StartCalls :
        /\ RegistrationFailed(k)
        /\ startError[k].cause = "HOOK_EXECUTION_ERROR"
        /\ extensionId = k

\* C8: when register succeeded and the INIT dispatch failed, one
\* init/error request has been sent by the time start() rejects.
C8_InitErrorReported ==
    \A k \in StartCalls :
        (RegistrationFailed(k) /\ startError[k].cause = "HOOK_EXECUTION_ERROR") =>
            requests["init/error"] = 1

\* C9: when a poll of the loop fails, the error is logged; a fatal error
\* has reportExitError tried once, #isRunning reset and the loop ended with
\* no further poll; any other error leaves #isRunning as it is and the loop
\* polls again.
FatalError == [code |-> "FATAL", cause |-> "none", isFatal |-> TRUE]

ExitReportTried(before, after) ==
    \/ after.requests["exit/error"] = before.requests["exit/error"] + 1
    \/ "Failed to report exit error" \in after.logged

C9_FatalBranch ==
    \A k \in StartCalls :
        loopPc[k] = "poll" =>
            LET after == LoopCatch(State, k, FatalError)
            IN  /\ ~after.isRunning
                /\ after.loopPc[k] = "done"
                /\ after.requests["event/next"] = Polls
                /\ after.requests["exit/error"] <= requests["exit/error"] + 1
                /\ ExitReportTried(State, after)

C9_PollFailureStep ==
    \A r \in polled' \ polled :
        r.error # NoError =>
            /\ "Error in event loop" \in logged'
            /\ IF r.error.isFatal
               THEN ~isRunning' /\ loopPc'[r.call] = "done" /\ Polls' = Polls
               ELSE /\ isRunning' = isRunning
                    /\ isRunning => (loopPc'[r.call] = "poll" /\ Polls' = Polls + 1)

C9_PollFailureClassified == []C9_FatalBranch /\ [][C9_PollFailureStep]_vars

\* A poll failed with an error that is not fatal and the loop polls again.
C9_Witness ==
    \E r \in polled :
        /\ r.error # NoError /\ ~r.error.isFatal
        /\ "Error in event loop" \in logged
        /\ isRunning
        /\ loopPc[r.call] = "poll"

C11_FirstFailureState ==
    \A o \in failure :
        /\ o.inv \notin running
        /\ [phase |-> o.inv.phase, event |-> o.inv.event, outcome |-> "rejected"]
               \in completed
        /\ "Error executing hook" \in logged
        /\ o.surfaced <=> ~o.late

C11_SettleStep ==
    /\ Cardinality(running \ running') <= 1
    /\ \A o \in failure' : running \ running' = {o.inv}
    /\ \A c \in completed' \ completed :
          c.outcome = "rejected" =>
              \E o \in failure' :
                  /\ o.surfaced
                  /\ o.inv.phase = c.phase /\ o.inv.event = c.event
                  /\ RunningOf(c.phase, c.event) \ {o.inv} \subseteq running'
    /\ \A o \in failure' :
          o.late => (completed' = completed /\ isRunning' = isRunning
                     /\ startPc' = startPc /\ loopPc' = loopPc)

C12_OwnPriorityWins ==
    ~failedRegs =>
        \A p \in Phases : \A i \in 1..Len(hooks[p]) :
            hooks[p][i].priority = asked[hooks[p][i].handler + 1]

HandlersOf(p) == {hooks[p][i].handler : i \in 1..Len(hooks[p])}
Latest(ids) == CHOOSE m \in ids : \A j \in ids : j <= m

\* The list register builds when the handlers ids are given to it one call
\* at a time, in their order of registration, each as a {handler, priority}
\* object carrying the priority asked for, with no options.
RECURSIVE OneByOne(_, _)
OneByOne(p, ids) ==
    IF ids = {} THEN <<>>
    ELSE LET m == Latest(ids)
             before == [EmptyRegistry EXCEPT ![p] = OneByOne(p, ids \ {m})]
         IN  register(before, m, p,
                      Single([kind |-> "object", priority |-> {asked[m + 1]}]),
                      NoOptions).hooks[p]

\* C13: whatever the forms in which the handlers of a phase were registered
\* (bare, object, array, mixed array, one call or several), the phase's
\* list is the one that registering them one by one as {handler, priority}
\* objects with the same priorities gives.
C13_FormIndependent ==
    ~failedRegs => \A p \in Phases : hooks[p] = OneByOne(p, HandlersOf(p))

\* Whether a handler argument is a function, a {handler, priority} object or
\* an array of these.
Supported(handler) == \A i \in 1..Len(handler.items) : IsValidItem(handler.items[i])

\* The handler arguments of at most two items.
HandlerArguments ==
    {Single(item) : item \in Items}
        \cup {Array(items) : items \in UNION {[1..n -> Items] : n \in 0..2}}

\* C14: every register call for an event type outside {INIT, INVOKE,
\* SHUTDOWN} throws INVALID_EVENT_TYPE, and every call for one of the three
\* with a handler argument of an unsupported shape throws INVALID_HANDLER.
C14_RegisterStep ==
    \A t \in EventTypes, handler \in HandlerArguments, o \in Options :
        Register(t, handler, o) =>
            /\ t \notin Phases => regError' = "INVALID_EVENT_TYPE"
            /\ (t \in Phases /\ ~Supported(handler)) => regError' = "INVALID_HANDLER"

C14_InvalidArgumentsRejected == [][C14_RegisterStep]_vars

\* The executeHooks calls a step makes.
NewDispatches ==
    {d \in BagToSet(dispatched') : CopiesIn(d, dispatched') > CopiesIn(d, dispatched)}

\* C15: executeHooks on a phase with no entry returns at once without an
\* error: applied in any reachable state it changes nothing of the
\* controller but the record of the call, and a step that makes such a
\* call starts no handler, leaves the registry as it is and does not leave
\* the caller waiting.
C15_EmptyPhaseState ==
    \A p \in Phases :
        hooks[p] = <<>> =>
            LET event == Envelope(p, 1)
                after == executeHooks(State, p, event)
            IN  /\ [after EXCEPT !.dispatched = dispatched, !.completed = completed] = State
                /\ after.dispatched = dispatched (+) SetToBag({DispatchOf(p, event)})
                /\ after.completed =
                       completed \cup {[phase |-> p, event |-> event, outcome |-> "resolved"]}

C15_EmptyPhaseStep ==
    \A d \in NewDispatches :
        hooks[d.phase] = <<>> =>
            /\ [phase |-> d.phase, event |-> d.event, outcome |-> "resolved"] \in completed'
            /\ [phase |-> d.phase, event |-> d.event, outcome |-> "rejected"] \notin completed'
            /\ running' = running
            /\ failure' = {}
            /\ hooks' = hooks
            /\ \A k \in StartCalls :
                  /\ d.event = RegistrationResponse(k) => startPc'[k] # "init"
                  /\ loopEvent'[k] # d.event

C15_EmptyPhaseResolves == []C15_EmptyPhaseState /\ [][C15_EmptyPhaseStep]_vars

\* A polled INVOKE event was dispatched to an empty phase and the loop has
\* gone on to its next poll.
C15_Witness ==
    \E r \in polled :
        /\ r.event.eventType = "INVOKE"
        /\ hooks["INVOKE"] = <<>>
        /\ [phase |-> "INVOKE", event |-> r.event, outcome |-> "resolved"] \in completed
        /\ loopPc[r.call] = "poll"

\* C16: the controller sends at most one register request; #extensionId is
\* null or the identifier that request returned, and while it is null no
\* event/next, init/error or exit/error request has been sent.
C16_ExtensionIdAssignedOnce ==
    /\ requests["register"] <= 1
    /\ extensionId \in {0, 1}
    /\ extensionId = 0 =>
           \A op \in Operations \ {"register"} : requests[op] = 0

\* The event/next requests whose response has not come yet.
OutstandingPolls ==
    Cardinality({k \in StartCalls : startPc[k] = "prefetch"})
        + Cardinality({k \in StartCalls : loopPc[k] = "poll"})

\* C17: at most one event/next request of the controller is outstanding,
\* the pre-fetch of start() included.
C17_OnePollOutstanding == OutstandingPolls <= 1

\* C18: the promise of a start() call that registered and ran its INIT
\* hooks has settled only if the controller is no longer running and the
\* call's poll loop has ended.
C18_StartSettlesAtShutdown ==
    \A k \in StartCalls :
        startPc[k] = "resolved" => (~isRunning /\ loopPc[k] = "done")

Started == \E k \in StartCalls : startPc[k] # "idle"

\* C19: once start() has been called, no call of onInit, onInvoke or
\* onShutdown is accepted: the lists of the registry stay as they were.
C19_RegistryFrozen ==
    [][Started => hooks' = hooks]_vars

\* C20: every register request sent names exactly INVOKE when the
\* controller is internal, and exactly INVOKE and SHUTDOWN when it is
\* external.
C20_SubscribedEvents ==
    /\ requests["register"] > 0 => subscriptions # {}
    /\ \A events \in subscriptions :
          /\ extensionType = "internal" => events = {"INVOKE"}
          /\ extensionType = "external" => events = {"INVOKE", "SHUTDOWN"}

\* An internal controller has registered and was sent an INVOKE event.
C20_Witness ==
    /\ extensionType = "internal"
    /\ subscriptions = {{"INVOKE"}}
    /\ \E r \in polled : r.event.eventType = "INVOKE"

InitDispatch(k) == DispatchOf("INIT", RegistrationResponse(k))
InitResolved(k) ==
    [phase |-> "INIT", event |-> RegistrationResponse(k), outcome |-> "resolved"]

\* C21: with initLoad 'after', a start() call whose register succeeded
\* issues one event/next request, launches its INIT hooks in the step that
\* receives the response and issues no other request before, and the event
\* received is dispatched to no hook; with initLoad 'before', the INIT
\* hooks are launched on the register response and no event/next request
\* is issued until their dispatch has completed successfully.
C21_PrefetchState ==
    \A k \in StartCalls :
        OnlyCall(k) =>
            /\ (initLoad = "after" /\ startPc[k] = "prefetch") =>
                   (Polls = 1 /\ responses = 0 /\ dispatched = EmptyBag)
            /\ (initLoad = "after" /\ startPc[k] = "init") =>
                   (Polls = 1 /\ responses = 1 /\ polled = {})
            /\ initLoad = "after" =>
                   \A d \in BagToSet(dispatched) :
                       d.phase # "INIT" => (d.event.id # 1 /\ d \in {DispatchOf(d.phase, r.event) : r \in polled})
            /\ (initLoad = "before" /\ Polls > 0) => InitResolved(k) \in completed
            /\ initLoad = "before" => startPc[k] # "prefetch"

C21_PrefetchStep ==
    \A k \in StartCalls :
        /\ (startPc[k] = "register" /\ startPc'[k] # "register" /\ extensionId' = k) =>
              IF initLoad = "after"
              THEN startPc'[k] = "prefetch" /\ Polls' = Polls + 1 /\ NewDispatches = {}
              ELSE /\ NewDispatches = {InitDispatch(k)}
                   /\ Polls' # Polls => InitResolved(k) \in completed'
        /\ InitDispatch(k) \in NewDispatches =>
              /\ startPc[k] = (IF initLoad = "after" THEN "prefetch" ELSE "register")
              /\ hooks["INIT"] # <<>> => (Polls' = Polls /\ startPc'[k] = "init")
              /\ polled' = polled
        /\ (startPc[k] = "prefetch" /\ startPc'[k] # "prefetch") =>
              /\ responses' = responses + 1
              /\ NewDispatches \subseteq {InitDispatch(k)}

C21_PrefetchBeforeInit == []C21_PrefetchState /\ [][C21_PrefetchStep]_vars

\* The pre-fetched event has arrived and the INIT handlers are running.
C21_Witness ==
    /\ initLoad = "after"
    /\ startPc[1] = "init"
    /\ Polls = 1
    /\ responses = 1
    /\ RunningOf("INIT", RegistrationResponse(1)) # {}

\* C22: new LambdaHooks succeeds whenever extensionName is not empty and
\* extensionType is 'internal' or 'external', and throws INIT_ERROR
\* whenever extensionName is missing or extensionType is another value.
C22_RequiredOptionsSuffice ==
    LET o == constructed.options
        required == /\ o.extensionName \notin {{}, {""}}
                    /\ o.extensionType \in {{"internal"}, {"external"}}
    IN  IF required THEN constructed.error = NoError
        ELSE constructed.error.code = "INIT_ERROR"

\* C23: a report that fails is logged and nothing more. A start() call
\* that fails and whose reportInitError throws still rejects with
\* EXTENSION_REGISTRATION_FAILED and the original error as cause; a fatal
\* poll error whose reportExitError throws still resets #isRunning and ends
\* the loop, and touches neither the process nor the outcome of start().
C23_InitReportStep ==
    \A k \in StartCalls :
        (startPc[k] \in {"register", "prefetch", "init"} /\ startPc'[k] = "rejected") =>
            LET r == reportInitError(State)
            IN  r.error # "none" =>
                    /\ "Failed to report initialization error" \in logged'
                    /\ startError'[k].code = "EXTENSION_REGISTRATION_FAILED"
                    /\ startError'[k].cause \in OriginalErrors
                    /\ requests' = requests
                    /\ exited' = exited

C23_ExitReportState ==
    \A k \in StartCalls :
        loopPc[k] = "poll" =>
            LET r == reportExitError(State)
                after == LoopCatch(State, k, FatalError)
            IN  r.error # "none" =>
                    /\ "Failed to report exit error" \in after.logged
                    /\ ~after.isRunning
                    /\ after.loopPc[k] = "done"
                    /\ after.requests = requests
                    /\ after.exited = exited
                    /\ after.startPc = startPc
                    /\ after.startError = startError

C23_ReportFailureOnlyLogged == []C23_ExitReportState /\ [][C23_InitReportStep]_vars

\* The register request failed, the report of that failed too, and start()
\* has rejected with the registration error.
C23_Witness ==
    \E k \in StartCalls :
        /\ RegistrationFailed(k)
        /\ startError[k].cause = "NETWORK_ERROR"
        /\ "Failed to report initialization error" \in logged
        /\ requests["init/error"] = 0

\* C24: a call of reportInitError or reportExitError made while no
\* extension identifier is known throws INVALID_STATE, and no init/error or
\* exit/error request is sent while none is known.
C24_ReportStep ==
    \A r \in reported' \ reported : extensionId' = 0 => r.error = "INVALID_STATE"

C24_ReportWithoutIdentifier ==
    /\ [](extensionId = 0 => (requests["init/error"] = 0 /\ requests["exit/error"] = 0))
    /\ [][C24_ReportStep]_vars

ShutdownDispatches == {d \in BagToSet(dispatched) : d.phase = "SHUTDOWN"}

\* C25: over the life of the controller the SHUTDOWN hooks are dispatched
\* at most once, whatever SHUTDOWN events and signals arrive.
C25_ShutdownDispatchedOnce ==
    /\ Cardinality(ShutdownDispatches) <= 1
    /\ \A d \in ShutdownDispatches : CopiesIn(d, dispatched) = 1

\* C26: the step that makes an executeHooks call starts one invocation for
\* every entry of the phase's list, each with the event of the call and
\* none twice, before any of them has settled; so a handler that does not
\* settle keeps no later handler from being started.
C26_LaunchStep ==
    \A d \in NewDispatches :
        /\ running \subseteq running'
        /\ running' \ running =
               {[phase |-> d.phase, event |-> d.event, idx |-> i] :
                    i \in 1..Len(hooks[d.phase])}
        /\ Cardinality(running' \ running) = Len(LaunchOrder(d.phase))
        /\ CopiesIn(d, dispatched') = 1

C26_AllHandlersStarted == [][C26_LaunchStep]_vars

\* The first handler of a call has not settled; the second one was started
\* all the same, and has settled.
C26_Witness ==
    \E inv \in running :
        /\ inv.idx = 1
        /\ Len(hooks[inv.phase]) = 2
        /\ RunningOf(inv.phase, inv.event) = {inv}
        /\ ~IsCompleted(inv.phase, inv.event)

\* C27: a start() call dispatches the INIT hooks at most once, exactly once
\* when it gets that far, with the response of its register request and
\* only after that request has succeeded; its poll loop exists only once
\* that dispatch has resolved with no INIT handler left running, and until
\* then (no other start() call made) the controller is not running, has
\* added no signal listener and has dispatched no INVOKE or SHUTDOWN hook.
C27_InitState ==
    /\ \A d \in BagToSet(dispatched) :
          d.phase = "INIT" => \E k \in StartCalls : d = InitDispatch(k)
    /\ \A k \in StartCalls :
          /\ CopiesIn(InitDispatch(k), dispatched) <= 1
          /\ startPc[k] \in {"init", "resolved"} =>
                 CopiesIn(InitDispatch(k), dispatched) = 1
          /\ startPc[k] \in {"idle", "register", "prefetch"} =>
                 CopiesIn(InitDispatch(k), dispatched) = 0
          /\ startPc[k] = "init" =>
                 (loopPc[k] = "none" /\ RunningOf("INIT", RegistrationResponse(k)) # {})
          /\ loopPc[k] # "none" =>
                 (InitResolved(k) \in completed /\ startPc[k] = "resolved")
          /\ InitResolved(k) \in completed =>
                 RunningOf("INIT", RegistrationResponse(k)) = {}
          /\ (OnlyCall(k) /\ InitResolved(k) \notin completed) =>
                 /\ ~isRunning
                 /\ \A sig \in Signals : listeners[sig] = 0
                 /\ \A d \in BagToSet(dispatched) : d.phase = "INIT"

C27_InitStep ==
    \A k \in StartCalls :
        InitDispatch(k) \in NewDispatches =>
            /\ startPc[k] \in {"register", "prefetch"}
            /\ startPc'[k] \in {"init", "resolved"}
            /\ OnlyCall(k) => extensionId' = k

C27_InitBeforeRunning == []C27_InitState /\ [][C27_InitStep]_vars

\* The INIT handlers of a start() call have all returned and the controller
\* is running.
C27_Witness ==
    /\ hooks["INIT"] # <<>>
    /\ InitResolved(1) \in completed
    /\ CopiesIn(InitDispatch(1), dispatched) = 1
    /\ isRunning
    /\ loopPc[1] = "poll"

\* C28: a register call that throws (INVALID_EVENT_TYPE or INVALID_HANDLER)
\* leaves the entry list of every phase as it was before the call, and
\* every list is still sorted by non-increasing priority.
C28_FailedRegisterStep ==
    \A t \in EventTypes, handler \in HandlerArguments, o \in Options :
        (Register(t, handler, o) /\ regError' # "none") =>
            /\ hooks' = hooks
            /\ \A p \in Phases : NonIncreasing(hooks'[p])

C28_FailedRegisterChangesNothing == [][C28_FailedRegisterStep]_vars

\* The events the polls have returned.
PolledEvents == {r.event : r \in polled}

\* C29: while a loop has a nextEvent poll outstanding no handler launched
\* for a polled event is running, and the handlers that run for polled
\* events all belong to one event.
C29_PolledEventsOneAtATime ==
    /\ \A k \in StartCalls :
          loopPc[k] = "poll" => \A inv \in running : inv.event \notin PolledEvents
    /\ \A a, b \in running :
          (a.event \in PolledEvents /\ b.event \in PolledEvents) => a.event = b.event

\* C30: every error nextEvent can throw (API_ERROR, NETWORK_ERROR,
\* INVALID_STATE) has isFatal = false, so the catch block of a running loop
\* that is handed one keeps the controller running and polls again; the
\* controller stops running only in a step that ends the SHUTDOWN hooks of
\* a polled SHUTDOWN event, or with the exit of the process.
C30_NextEventThrows == NextEventErrors \cup {LambdaHookError("INVALID_STATE", "none")}

C30_PollErrorState ==
    /\ \A e \in C30_NextEventThrows : ~e.isFatal
    /\ \A r \in polled : ~r.error.isFatal
    /\ \A k \in StartCalls, e \in C30_NextEventThrows :
          (isRunning /\ loopPc[k] = "poll") =>
              LET after == LoopCatch(State, k, e)
              IN  /\ after.isRunning
                  /\ after.loopPc[k] = "poll"
                  /\ after.requests["event/next"] = Polls + 1
                  /\ after.requests["exit/error"] = requests["exit/error"]
                  /\ after.exited = exited

C30_LeavesRunningStep ==
    (isRunning /\ ~isRunning') =>
        \/ exited' # "no"
        \/ \E c \in completed' \ completed :
              /\ c.phase = "SHUTDOWN"
              /\ \E r \in polled' : r.event = c.event /\ r.error = NoError

C30_PollFailureNeverStops == []C30_PollErrorState /\ [][C30_LeavesRunningStep]_vars

\* Every poll the bound allows has failed, and the controller is running
\* with one more poll outstanding.
C30_Witness ==
    /\ responses = MaxPolls
    /\ \A r \in polled : r.error # NoError
    /\ Cardinality(polled) = MaxPolls
    /\ isRunning
    /\ loopPc[1] = "poll"
    /\ Polls = MaxPolls + 1

\* C31: when the handlers that are launched settle, a loop whose poll was
\* answered with a SHUTDOWN event ends, unless the process exits first; the
\* step that ends a loop leaves the controller not running, and a loop
\* that has ended stays ended: with no other start() call made, no
\* event/next request is sent afterwards.
C31_ShutdownPolled(k) ==
    \E r \in ShutdownPolls : r.call = k /\ r.error = NoError

C31_LoopEndStep ==
    \A k \in StartCalls :
        /\ (loopPc[k] # "done" /\ loopPc'[k] = "done") => ~isRunning'
        /\ loopPc[k] = "done" =>
               /\ loopPc'[k] = "done"
               /\ OnlyCall(k) => (Polls' = Polls /\ ~isRunning')

C31_ShutdownTerminates ==
    /\ \A k \in StartCalls :
          C31_ShutdownPolled(k) ~> (loopPc[k] = "done" \/ exited # "no")
    /\ [][C31_LoopEndStep]_vars

\* A polled SHUTDOWN event went to two handlers that have both resolved,
\* and the loop has ended with the process alive.
C31_Witness ==
    \E r \in ShutdownPolls :
        /\ Len(hooks["SHUTDOWN"]) = 2
        /\ [phase |-> "SHUTDOWN", event |-> r.event, outcome |-> "resolved"] \in completed
        /\ RunningOf("SHUTDOWN", r.event) = {}
        /\ loopPc[r.call] = "done"
        /\ ~isRunning
        /\ exited = "no"
        /\ startPc[r.call] = "resolved"

====
